---- MODULE Spec2Model ----
(***************************************************************************)
(* A model of spyce's 3D linear algebra (spyce/vector.py), its interactive *)
(* orbit builder (spyce/interact.py, ask_orbit) and its GLUT callback      *)
(* wrapper (spyce/gui/graphics.py, glut_callback).                         *)
(*                                                                         *)
(* Numbers.  Vector and matrix components are integers.  Quantities that   *)
(* the code computes in floating point (norms, the cosine quotient of      *)
(* angle(), the normalised axis of rotation()) are fixed-point integers in *)
(* units of 1/Scale, every division and square root rounded to nearest.    *)
(* math.acos is kept symbolic: the angle acos(r/Scale) is the record       *)
(* [neg |-> FALSE, acos |-> r], defined for -Scale <= r <= Scale only, and *)
(* its negation has neg = TRUE.  Angles given to sin and cos are whole     *)
(* quarter turns, where both are -1, 0 or 1.                               *)
(***************************************************************************)
EXTENDS Integers, Sequences, FiniteSets, TLC

VARIABLES
    call,        \* vector.py: the operation applied and its operands
    out,         \* vector.py: what the operation returned or raised
    heap,        \* the Vector and Matrix objects alive, by identity
    env,         \* the names u, v, w, A, B of the caller and the object each is bound to
    ret,         \* what the last statement over the heap returned or raised
    lines,       \* interact.py: the lines the user will type, in order
    orbit,       \* interact.py: ask_orbit's locals and outcome
    is_running,  \* graphics.py: self.is_running of the object owning the callbacks
    glut_log,    \* graphics.py: what the wrapper did, in order, over all invocations
    last,        \* graphics.py: the last invocation of a wrapped callback
    ghost        \* graphics.py: history of the invocations (for the properties only)

vars == <<call, out, heap, env, ret, lines, orbit, is_running, glut_log, last, ghost>>

(***************************************************************************)
(* Bounds of the model.                                                    *)
(***************************************************************************)
\* Vector components range over -MaxComp..MaxComp.
MaxComp == 1
\* Entries of the enumerated matrices range over 0..MaxEntry.
MaxEntry == 1
\* The rounding error of the cosine quotient ranges over -MaxErr..MaxErr (units of 1/Scale).
MaxErr == 1
\* Fixed-point resolution: a real x is the integer nearest to x * Scale.
Scale == 1000

Comp == (-MaxComp)..MaxComp
Vec == {<<x, y, z>> : x \in Comp, y \in Comp, z \in Comp}
ZeroVec == <<0, 0, 0>>
Entry == 0..MaxEntry
Row == {<<x, y, z>> : x \in Entry, y \in Entry, z \in Entry}
Errs == (-MaxErr)..MaxErr

(***************************************************************************)
(* Arithmetic helpers.                                                     *)
(***************************************************************************)
Abs(x) == IF x < 0 THEN -x ELSE x
Max2(a, b) == IF a < b THEN b ELSE a
Min2(a, b) == IF b < a THEN b ELSE a

\* a / b rounded to the nearest integer (ties away from zero), b # 0.
Quot(a, b) ==
    LET q == (2 * Abs(a) + Abs(b)) \div (2 * Abs(b))
    IN  IF (a < 0) # (b < 0) THEN -q ELSE q

RECURSIVE FloorSqrt(_, _, _)
\* The largest k in lo..hi with k * k <= n, given lo * lo <= n < (hi + 1) * (hi + 1).
FloorSqrt(n, lo, hi) ==
    IF lo >= hi THEN lo
    ELSE LET mid == (lo + hi + 1) \div 2
         IN  IF mid * mid <= n THEN FloorSqrt(n, mid, hi) ELSE FloorSqrt(n, lo, mid - 1)

\* math.sqrt(n) * Scale for an integer n >= 0, rounded to nearest.  The search
\* stops at 46340, the largest root of a 32-bit integer.
Sqrt(n) ==
    LET m == n * Scale * Scale
        k == FloorSqrt(m, 0, Min2((n + 1) * Scale, 46340))
    IN  IF m - k * k > k THEN k + 1 ELSE k

\* math.sin and math.cos of q quarter turns.
Sin(q) == <<0, 1, 0, -1>>[(q % 4) + 1]
Cos(q) == <<1, 0, -1, 0>>[(q % 4) + 1]

(***************************************************************************)
(* Results.  An operation returns Ok(value) or raises: Raise(exception).   *)
(***************************************************************************)
Ok(x) == [st |-> "ok", val |-> x]
Raise(e) == [st |-> e, val |-> <<>>]
Pending == [st |-> "pending", val |-> <<>>]

(***************************************************************************)
(* class Vector(list): a Vector is the sequence <<x, y, z>>.               *)
(***************************************************************************)
dot_asym(u, v) == u[1] * v[1] + u[2] * v[2] + u[3] * u[3]
\* Vector.dot: fsum of the three products, exact on integers.
dot(u, v) == u[1] * v[1] + u[2] * v[2] + u[3] * v[3]

\* Vector.cross
cross(u, v) ==
    << u[2] * v[3] - u[3] * v[2],
       u[3] * v[1] - u[1] * v[3],
       u[1] * v[2] - u[2] * v[1] >>

\* Vector.norm, in units of 1/Scale.
norm(u) == Sqrt(dot(u, u))

clamp_none(r) == r
\* Vector.angle, line 35: r = max(-1, min(1, r)).
clamp(r) == Max2(-Scale, Min2(Scale, r))

\* math.acos: a domain error outside [-1, 1], else the (symbolic) angle in [0, pi].
acos(r) ==
    IF r < -Scale \/ r > Scale THEN Raise("ValueError")
    ELSE Ok([neg |-> FALSE, acos |-> r])

\* Vector.angle, line 34: u.dot(v)/u.norm()/v.norm(), with err the rounding error of
\* the floating-point quotient.  Dividing by a zero norm raises ZeroDivisionError.
quotient(u, v, err) ==
    IF norm(u) = 0 \/ norm(v) = 0 THEN Raise("ZeroDivisionError")
    ELSE Ok(Quot(Quot(dot(u, v) * Scale * Scale, norm(u)) * Scale, norm(v)) + err)

\* Vector.angle
angle(u, v, err) ==
    LET r == quotient(u, v, err)
    IN  IF r.st # "ok" THEN r ELSE acos(clamp(r.val))

\* -x for an angle x.
Neg(a) == [a EXCEPT !.neg = ~a.neg]

None == <<>>
PlusZ == <<0, 0, 1>>

oriented_angle_flipped(u, v, normal, err) ==
    LET n == IF normal = None THEN PlusZ ELSE normal
        geometric_angle == angle(u, v, err)
    IN  IF geometric_angle.st # "ok" THEN geometric_angle
        ELSE IF dot(n, cross(u, v)) > 0 THEN Ok(Neg(geometric_angle.val))
        ELSE geometric_angle
\* Vector.oriented_angle; normal is None when the caller omits it.
oriented_angle(u, v, normal, err) ==
    LET n == IF normal = None THEN PlusZ ELSE normal
        geometric_angle == angle(u, v, err)
    IN  IF geometric_angle.st # "ok" THEN geometric_angle
        ELSE IF dot(n, cross(u, v)) < 0 THEN Ok(Neg(geometric_angle.val))
        ELSE geometric_angle

\* Vector.__mul__
Vector_mul(u, s) == <<u[1] * s, u[2] * s, u[3] * s>>
\* Vector.__add__
Vector_add(u, v) == <<u[1] + v[1], u[2] + v[2], u[3] + v[3]>>
\* Vector.__iadd__
Vector_iadd(u, v) == <<u[1] + v[1], u[2] + v[2], u[3] + v[3]>>
\* Vector.__sub__
Vector_sub(u, v) == <<u[1] - v[1], u[2] - v[2], u[3] - v[3]>>
\* Vector.__isub__
Vector_isub(u, v) == <<u[1] - v[1], u[2] - v[2], u[3] - v[3]>>
\* Vector.__neg__
Vector_neg(u) == <<-u[1], -u[2], -u[3]>>
\* Vector.__abs__: max(u)
Vector_abs(u) == Max2(u[1], Max2(u[2], u[3]))

(***************************************************************************)
(* class Matrix(list): a Matrix is [kind, rows].  kind tells what the      *)
(* elements of the list are: "list" (rows given as lists: a literal,       *)
(* identity, rotation, from_euler_angles), "Vector" (rows built by a       *)
(* product), "tuple" (rows built by zip) and "flat" (the elements are      *)
(* numbers, not rows: what __sub__ builds).  Python's == on lists ignores  *)
(* the kind; rows holds the elements.                                      *)
(***************************************************************************)
Mat(kind, rows) == [kind |-> kind, rows |-> rows]

\* zip(*x) for a matrix x of three rows of three: its columns.
Columns(x) ==
    << <<x.rows[1][1], x.rows[2][1], x.rows[3][1]>>,
       <<x.rows[1][2], x.rows[2][2], x.rows[3][2]>>,
       <<x.rows[1][3], x.rows[2][3], x.rows[3][3]>> >>

Matrix_mul_vec_swapped(self, x) ==
    IF self.kind = "flat" THEN Raise("ValueError")
    ELSE LET r == self.rows
         IN  Ok(<< r[1][1] * x[1] + r[2][1] * x[2] + r[3][1] * x[3],
                   r[1][2] * x[1] + r[2][2] * x[2] + r[3][2] * x[3],
                   r[1][3] * x[1] + r[2][3] * x[2] + r[3][3] * x[3] >>)
\* Matrix.__mul__, lines 97-105: the matrix-vector product.  Unpacking a flat matrix
\* into three rows raises ValueError.
Matrix_mul_vec(self, x) ==
    IF self.kind = "flat" THEN Raise("ValueError")
    ELSE LET r == self.rows
         IN  Ok(<< r[1][1] * x[1] + r[1][2] * x[2] + r[1][3] * x[3],
                   r[2][1] * x[1] + r[2][2] * x[2] + r[2][3] * x[3],
                   r[3][1] * x[1] + r[3][2] * x[2] + r[3][3] * x[3] >>)

\* Matrix.__mul__, lines 94-96: m = Matrix(zip(*x)); Matrix([m*row for row in self]).
\* zip(*x) of a flat x, and m*row for a number row, raise TypeError.
Matrix_mul_mat(self, x) ==
    IF x.kind = "flat" \/ self.kind = "flat" THEN Raise("TypeError")
    ELSE LET m == Mat("tuple", Columns(x))
         IN  Ok(Mat("Vector", [i \in 1..3 |-> Matrix_mul_vec(m, self.rows[i]).val]))

\* Matrix.__sub__: the nine differences in one flat list.  zip of two numbers
\* raises TypeError.
Matrix_sub(A, B) ==
    IF A.kind = "flat" \/ B.kind = "flat" THEN Raise("TypeError")
    ELSE Ok(Mat("flat", [k \in 1..9 |->
                A.rows[((k - 1) \div 3) + 1][((k - 1) % 3) + 1]
              - B.rows[((k - 1) \div 3) + 1][((k - 1) % 3) + 1]]))

RECURSIVE MaxOf(_, _)
\* max(f) of a non-empty sequence f of numbers, from element i on.
MaxOf(f, i) == IF i = Len(f) THEN f[i] ELSE Max2(f[i], MaxOf(f, i + 1))

\* Matrix.__abs__: max(abs(a) for a in A).  abs of a list or a tuple raises
\* TypeError; abs of a Vector row is Vector.__abs__; abs of a number is its
\* absolute value.
Matrix_abs(A) ==
    CASE A.kind = "flat"   -> Ok(MaxOf([k \in 1..Len(A.rows) |-> Abs(A.rows[k])], 1))
      [] A.kind = "Vector" -> Ok(MaxOf([k \in 1..Len(A.rows) |-> Vector_abs(A.rows[k])], 1))
      [] OTHER             -> Raise("TypeError")

\* Matrix.identity
identity == Mat("list", << <<1, 0, 0>>, <<0, 1, 0>>, <<0, 0, 1>> >>)

\* Matrix.rotation, angle in quarter turns; the entries are in units of 1/Scale.
\* x/d with d = 0.0 raises ZeroDivisionError.
rotation(theta, x0, y0, z0) ==
    LET s == Sin(theta)
        c == Cos(theta)
        d == Sqrt(x0 * x0 + y0 * y0 + z0 * z0)
    IN  IF d = 0 THEN Raise("ZeroDivisionError")
        ELSE LET x == Quot(x0 * Scale * Scale, d)
                 y == Quot(y0 * Scale * Scale, d)
                 z == Quot(z0 * Scale * Scale, d)
                 P(a, b) == Quot(a * b * (1 - c), Scale)
             IN  Ok(Mat("list", <<
                    <<P(x, x) + c * Scale, P(x, y) - z * s,     P(x, z) + y * s>>,
                    <<P(y, x) + z * s,     P(y, y) + c * Scale, P(y, z) - x * s>>,
                    <<P(z, x) - y * s,     P(z, y) + x * s,     P(z, z) + c * Scale>> >>))

\* Matrix.from_euler_angles, angles in quarter turns.
from_euler_angles(alpha, beta, gamma) ==
    LET c1 == Cos(alpha)
        s1 == Sin(alpha)
        c2 == Cos(beta)
        s2 == Sin(beta)
        c3 == Cos(gamma)
        s3 == Sin(gamma)
    IN  Mat("list", <<
            <<c1 * c3 - c2 * s1 * s3, -c1 * s3 - c2 * c3 * s1, s1 * s2>>,
            <<c3 * s1 + c1 * c2 * s3, c1 * c2 * c3 - s1 * s3,  -c1 * s2>>,
            <<s2 * s3,                c3 * s2,                 c2>> >>)

\* Whether a Matrix holds exactly 3 rows of exactly 3 columns each.
Is3x3(M) ==
    /\ M.kind # "flat"
    /\ Len(M.rows) = 3
    /\ \A i \in 1..3 : Len(M.rows[i]) = 3

(***************************************************************************)
(* Operands.  The matrices and vectors of tests.py, and the enumerated     *)
(* ones.                                                                   *)
(***************************************************************************)
TestM == Mat("list", << <<2, 0, 0>>, <<0, 2, 0>>, <<0, 0, 2>> >>)
TestA == Mat("list", << <<1, 2, 3>>, <<4, 5, 6>>, <<7, 8, 9>> >>)
TestB == Mat("list", << <<3, 2, 1>>, <<6, 5, 4>>, <<9, 8, 7>> >>)
TestMats == {identity, TestM, TestA, TestB}
TestVecs == {<<1, 2, 3>>, <<0, 1, 1>>, <<-1, 4, -7>>}
\* Matrices written as literals, entries in 0..MaxEntry.
Mats == {Mat("list", <<r1, r2, r3>>) : r1 \in Row, r2 \in Row, r3 \in {PlusZ, <<1, MaxEntry, 1>>}}
\* Matrices with negative entries whose rows are lists or Vectors.
SignedMats == {Mat(k, <<r1, r2, PlusZ>>) : k \in {"list", "Vector"}, r1 \in Vec, r2 \in TestVecs}
\* The normals given to oriented_angle (besides omitting it).
Normals == {ZeroVec, <<0, 0, -1>>, <<1, 0, 0>>, <<-1, 2, -1>>}
Quarter == 0..3

\* The flat matrices __sub__ builds from the matrices of tests.py.
FlatMats == {Matrix_sub(A, B).val : A \in TestMats, B \in TestMats}

(***************************************************************************)
(* The calls of vector.py: the operation and its operands.  A field an     *)
(* operation does not read holds a fixed value.                            *)
(***************************************************************************)
Call(op, u, v, n, A, B, s, err, q) ==
    [op |-> op, u |-> u, v |-> v, n |-> n, A |-> A, B |-> B, s |-> s, err |-> err, q |-> q]
NoCall == Call("none", ZeroVec, ZeroVec, None, identity, identity, 0, 0, <<0, 0, 0>>)
VecCall(op, u, v) == [NoCall EXCEPT !.op = op, !.u = u, !.v = v]
MatCall(op, A, B, v) == [NoCall EXCEPT !.op = op, !.A = A, !.B = B, !.v = v]

BinaryOps == {"dot", "cross", "add", "sub", "iadd", "isub"}
UnaryOps == {"norm", "neg", "vabs"}
MatPairs ==
    (Mats \X TestMats) \cup (TestMats \X Mats) \cup (TestMats \X TestMats)
        \cup (FlatMats \X TestMats) \cup (TestMats \X FlatMats)

\* The calls the model draws: every operation, its operands over the bounded sets.
IsCall(c) ==
    \/ \E op \in BinaryOps, u \in Vec, v \in Vec : c = VecCall(op, u, v)
    \/ \E op \in UnaryOps, u \in Vec \cup TestVecs \cup {<<8, 9, 12>>} : c = VecCall(op, u, ZeroVec)
    \/ \E u \in Vec, k \in Comp : c = [VecCall("vmul", u, ZeroVec) EXCEPT !.s = k]
    \/ \E u \in Vec, v \in Vec, e \in Errs : c = [VecCall("angle", u, v) EXCEPT !.err = e]
    \/ \E u \in Vec, v \in Vec, e \in Errs : c = [VecCall("oriented_angle", u, v) EXCEPT !.err = e]
    \/ \E u \in Vec, v \in Vec, n \in Normals :
           c = [VecCall("oriented_angle", u, v) EXCEPT !.n = n]
    \/ \E A \in Mats \cup FlatMats, v \in TestVecs : c = MatCall("mmulvec", A, identity, v)
    \/ \E A \in TestMats, v \in Vec : c = MatCall("mmulvec", A, identity, v)
    \/ \E p \in MatPairs, v \in {<<1, 2, 3>>, <<-1, 4, -7>>} : c = MatCall("mmul", p[1], p[2], v)
    \/ \E p \in MatPairs : c = MatCall("msub", p[1], p[2], ZeroVec)
    \/ \E A \in SignedMats \cup FlatMats \cup TestMats : c = MatCall("mabs", A, identity, ZeroVec)
    \/ c = [NoCall EXCEPT !.op = "identity"]
    \/ \E u \in Vec, q \in Quarter : c = [VecCall("rotation", u, ZeroVec) EXCEPT !.q = <<q, 0, 0>>]
    \/ \E a \in Quarter, b \in Quarter, g \in Quarter :
           c = [NoCall EXCEPT !.op = "from_euler_angles", !.q = <<a, b, g>>]

\* What the operation left: its result, and for angle() the value it passed to acos.
Out(res, arg) == [st |-> res.st, val |-> res.val, arg |-> arg]
NoOut == Out(Pending, 0)

\* The variables of the other components, which vector.py never touches.
NoHeap == <<>>
NoEnv == [name \in {} |-> 0]
NoOrbit == [pc |-> "none"]
NoLast == [kind |-> "none"]
NoGhost == [n |-> 0]
OtherThanAlg == <<heap, env, ret, lines, orbit, is_running, glut_log, last, ghost>>

InitAlg ==
    /\ IsCall(call)
    /\ out = NoOut
    /\ heap = NoHeap /\ env = NoEnv /\ ret = Pending
    /\ lines = <<>> /\ orbit = NoOrbit
    /\ is_running = FALSE /\ glut_log = <<>> /\ last = NoLast /\ ghost = NoGhost

\* The operation `op` is applied and leaves `res` (angle: having passed `arg` to acos).
Apply(op, res, arg) ==
    /\ call.op = op
    /\ out.st = "pending"
    /\ out' = Out(res, arg)
    /\ UNCHANGED <<call, OtherThanAlg>>

Dot == Apply("dot", Ok(dot(call.u, call.v)), 0)
Cross == Apply("cross", Ok(cross(call.u, call.v)), 0)
Norm == Apply("norm", Ok(norm(call.u)), 0)
Angle ==
    LET r == quotient(call.u, call.v, call.err)
    IN  Apply("angle", angle(call.u, call.v, call.err),
              IF r.st = "ok" THEN clamp(r.val) ELSE 0)
OrientedAngle ==
    LET r == quotient(call.u, call.v, call.err)
    IN  Apply("oriented_angle", oriented_angle(call.u, call.v, call.n, call.err),
              IF r.st = "ok" THEN clamp(r.val) ELSE 0)
VMul == Apply("vmul", Ok(Vector_mul(call.u, call.s)), 0)
VAdd == Apply("add", Ok(Vector_add(call.u, call.v)), 0)
VIAdd == Apply("iadd", Ok(Vector_iadd(call.u, call.v)), 0)
VSub == Apply("sub", Ok(Vector_sub(call.u, call.v)), 0)
VISub == Apply("isub", Ok(Vector_isub(call.u, call.v)), 0)
VNeg == Apply("neg", Ok(Vector_neg(call.u)), 0)
VAbs == Apply("vabs", Ok(Vector_abs(call.u)), 0)
MSub == Apply("msub", Matrix_sub(call.A, call.B), 0)
MAbs == Apply("mabs", Matrix_abs(call.A), 0)
MMulVec == Apply("mmulvec", Matrix_mul_vec(call.A, call.v), 0)
MMul == Apply("mmul", Matrix_mul_mat(call.A, call.B), 0)
Identity == Apply("identity", Ok(identity), 0)
Rotation == Apply("rotation", rotation(call.q[1], call.u[1], call.u[2], call.u[3]), 0)
FromEulerAngles ==
    Apply("from_euler_angles", Ok(from_euler_angles(call.q[1], call.q[2], call.q[3])), 0)

NextAlg ==
    \/ Dot \/ Cross \/ Norm \/ Angle \/ OrientedAngle
    \/ VMul \/ VAdd \/ VIAdd \/ VSub \/ VISub \/ VNeg \/ VAbs
    \/ MSub \/ MAbs \/ MMulVec \/ MMul
    \/ Identity \/ Rotation \/ FromEulerAngles

SpecAlg == InitAlg /\ [][NextAlg]_vars

(***************************************************************************)
(* Properties of vector.py, under SpecAlg.                                 *)
(***************************************************************************)
Done(op) == call.op = op /\ out.st # "pending"
Returned(op) == call.op = op /\ out.st = "ok"

\* C2: the dot product is commutative, the cross product anticommutative, and
\* u is orthogonal to cross(u, v); dot([1,0,0],[0,1,1]) is 0 and
\* cross([0,1,0],[1,0,0]) is [0,0,-1].
C2_DotCrossLaws ==
    /\ Returned("dot") =>
          /\ out.val = dot(call.v, call.u)
          /\ (call.u = <<1, 0, 0>> /\ call.v = <<0, 1, 1>>) => out.val = 0
    /\ Returned("cross") =>
          /\ out.val = Vector_neg(cross(call.v, call.u))
          /\ dot(call.u, out.val) = 0
          /\ (call.u = <<0, 1, 0>> /\ call.v = <<1, 0, 0>>) => out.val = <<0, 0, -1>>

C2_Witness ==
    /\ Returned("cross")
    /\ call.u = <<0, 1, 0>> /\ call.v = <<1, 0, 0>>
    /\ out.val = <<0, 0, -1>>

\* C3 as claimed: every operation that returns a Matrix (identity, rotation,
\* from_euler_angles, the product and the difference of two 3x3 matrices)
\* returns exactly 3 rows of exactly 3 columns each.
C3_MatrixResultsAre3x3 ==
    \A op \in {"identity", "rotation", "from_euler_angles", "mmul", "msub"} :
        (Returned(op) /\ Is3x3(call.A) /\ Is3x3(call.B)) => Is3x3(out.val)

\* The sum over k of A[i][k] * B[k][j].
SumProducts(A, B, i, j) ==
    A.rows[i][1] * B.rows[1][j] + A.rows[i][2] * B.rows[2][j] + A.rows[i][3] * B.rows[3][j]
\* The sum over k of A[i][k] * v[k].
SumRow(A, v, i) == A.rows[i][1] * v[1] + A.rows[i][2] * v[2] + A.rows[i][3] * v[3]

\* C4: the matrix products are the standard ones: (A*B)[i][j] is the sum over k
\* of A[i][k]*B[k][j], (A*v)[i] the sum over k of A[i][k]*v[k], (A*B)*v is
\* A*(B*v), and the identity matrix I has I*v = v and I*A = A*I = A.
C4_StandardProducts ==
    /\ (Done("mmul") /\ Is3x3(call.A) /\ Is3x3(call.B)) =>
          /\ out.st = "ok"
          /\ Is3x3(out.val)
          /\ \A i \in 1..3, j \in 1..3 :
                 out.val.rows[i][j] = SumProducts(call.A, call.B, i, j)
          /\ Matrix_mul_vec(out.val, call.v)
                 = Matrix_mul_vec(call.A, Matrix_mul_vec(call.B, call.v).val)
          /\ call.A = identity => out.val.rows = call.B.rows
          /\ call.B = identity => out.val.rows = call.A.rows
    /\ (Done("mmulvec") /\ Is3x3(call.A)) =>
          /\ out.st = "ok"
          /\ Len(out.val) = 3
          /\ \A i \in 1..3 : out.val[i] = SumRow(call.A, call.v, i)
          /\ call.A = identity => out.val = call.v

C4_Witness ==
    /\ Returned("mmul")
    /\ call.A = TestA /\ call.B = TestB
    /\ out.val.rows = << <<42, 36, 30>>, <<96, 81, 66>>, <<150, 126, 102>> >>

\* The normal oriented_angle uses: +Z when the caller omits it.
NormalUsed == IF call.n = None THEN PlusZ ELSE call.n

\* C5: oriented_angle(u, v, normal) is angle(u, v), negated exactly when
\* normal.(u x v) < 0, with normal +Z when omitted; with the default normal the
\* result is negative only if the z component of u x v is; from (0,1,0) to
\* (1,0,0) it is -pi/2 (the negated acos(0)); and swapping u and v flips the sign
\* whenever normal.(u x v) is not 0.
C5_OrientedAngleSign ==
    Returned("oriented_angle") =>
        LET side == dot(NormalUsed, cross(call.u, call.v))
            unsigned == angle(call.u, call.v, call.err)
            swapped == oriented_angle(call.v, call.u, call.n, call.err)
        IN  /\ unsigned.st = "ok"
            /\ out.val.acos = unsigned.val.acos
            /\ out.val.neg <=> side < 0
            /\ (call.n = None /\ out.val.neg) => cross(call.u, call.v)[3] < 0
            /\ (call.u = <<0, 1, 0>> /\ call.v = <<1, 0, 0>> /\ call.n = None /\ call.err = 0)
                   => out.val = [neg |-> TRUE, acos |-> 0]
            /\ side # 0 => (swapped.st = "ok" /\ swapped.val.neg # out.val.neg)

C5_Witness ==
    /\ Returned("oriented_angle")
    /\ call.u = <<0, 1, 0>> /\ call.v = <<1, 0, 0>> /\ call.n = None
    /\ out.val.neg

\* C6 as claimed: rotation about the zero axis raises instead of returning a
\* matrix, and oriented_angle raises instead of returning a number whenever u, v
\* or normal is the zero vector.
C6_ZeroLengthRaises ==
    /\ (Done("rotation") /\ call.u = ZeroVec) => out.st = "ZeroDivisionError"
    /\ (Done("oriented_angle")
            /\ (call.u = ZeroVec \/ call.v = ZeroVec \/ call.n = ZeroVec))
          => out.st = "ZeroDivisionError"

\* C7: for nonzero u and v and any rounding error of the quotient (also a
\* quotient a little below -1 or above 1), the value angle() passes to acos is in
\* [-1, 1]: angle() raises no domain error and its result is in [0, pi].
C7_AngleClamped ==
    (Done("angle") /\ call.u # ZeroVec /\ call.v # ZeroVec) =>
        /\ out.st = "ok"
        /\ -Scale <= out.arg /\ out.arg <= Scale
        /\ ~out.val.neg
        /\ -Scale <= out.val.acos /\ out.val.acos <= Scale

C7_Witness ==
    /\ Returned("angle")
    /\ quotient(call.u, call.v, call.err).val > Scale
    /\ out.arg = Scale

\* max(|x|) over the elements of a non-empty sequence of numbers.
MaxAbs(f) == MaxOf([k \in 1..Len(f) |-> Abs(f[k])], 1)

\* C10 as claimed: abs() is the maximum metric: abs(u) is max(|u1|, |u2|, |u3|),
\* never negative and equal to abs(-u), and abs(A) of a 3x3 matrix is the
\* largest |A[i][j]|.
C10_AbsIsMaximumMetric ==
    /\ Returned("vabs") =>
          /\ out.val = MaxAbs(call.u)
          /\ out.val >= 0
          /\ out.val = Vector_abs(Vector_neg(call.u))
    /\ (Done("mabs") /\ Is3x3(call.A)) =>
          /\ out.st = "ok"
          /\ out.val = MaxAbs(call.A.rows[1] \o call.A.rows[2] \o call.A.rows[3])

(***************************************************************************)
(* Objects.  Python passes references: heap[id] is the object with         *)
(* identity id, env[name] the object a name of the caller is bound to.     *)
(* Two names bound to the same id alias one object.  A method gets the     *)
(* heap and the ids of its operands and leaves a heap and what it returns: *)
(* a number, or the id of the object it built.                             *)
(***************************************************************************)
\* The heap may hold this many objects.
MaxObjects == 5
\* The components of the Vectors on the heap stay within -MaxMagnitude..MaxMagnitude.
MaxMagnitude == 12

VecObj(c) == [cls |-> "Vector", val |-> c]
MatObj(m) == [cls |-> "Matrix", val |-> m]

\* Vector([...]) and Matrix([...]): a new object, returned.
New(h, obj) == [heap |-> Append(h, obj), ret |-> Ok(Len(h) + 1)]
\* A method that builds no object and returns res.
Returns(h, res) == [heap |-> h, ret |-> res]
\* A method that returns a new Vector or Matrix of value res.val, or raises.
Builds(h, cls, res) ==
    IF res.st = "ok" THEN New(h, [cls |-> cls, val |-> res.val]) ELSE Returns(h, res)

\* Vector.dot
m_dot(h, u, v) == Returns(h, Ok(dot(h[u].val, h[v].val)))
\* Vector.cross
m_cross(h, u, v) == New(h, VecObj(cross(h[u].val, h[v].val)))
\* Vector.norm
m_norm(h, u) == Returns(h, Ok(norm(h[u].val)))
\* Vector.angle
m_angle(h, u, v) == Returns(h, angle(h[u].val, h[v].val, 0))
\* Vector.oriented_angle; normal is 0 when omitted, else an id.
m_oriented_angle(h, u, v, normal) ==
    Returns(h, oriented_angle(h[u].val, h[v].val,
                              IF normal = 0 THEN None ELSE h[normal].val, 0))
\* Vector.__mul__
m_mul(h, u, s) == New(h, VecObj(Vector_mul(h[u].val, s)))
\* Vector.__add__
m_add(h, u, v) == New(h, VecObj(Vector_add(h[u].val, h[v].val)))
\* Vector.__sub__
m_sub(h, u, v) == New(h, VecObj(Vector_sub(h[u].val, h[v].val)))
\* Vector.__neg__
m_neg(h, u) == New(h, VecObj(Vector_neg(h[u].val)))

m_iadd_in_place(h, u, v) ==
    [heap |-> [h EXCEPT ![u] = VecObj(Vector_iadd(h[u].val, h[v].val))], ret |-> Ok(u)]
\* Vector.__iadd__: unpacks both operands and returns a new Vector.
m_iadd(h, u, v) == New(h, VecObj(Vector_iadd(h[u].val, h[v].val)))
\* Vector.__isub__
m_isub(h, u, v) == New(h, VecObj(Vector_isub(h[u].val, h[v].val)))

\* Matrix.__mul__ by a Vector
m_matvec(h, A, x) == Builds(h, "Vector", Matrix_mul_vec(h[A].val, h[x].val))
\* Matrix.__mul__ by a Matrix: m and the rows are new objects, the operands are read.
m_matmul(h, A, B) == Builds(h, "Matrix", Matrix_mul_mat(h[A].val, h[B].val))

VecNames == {"u", "v"}
MatNames == {"A", "B"}
Scalars == {2}

\* What the last statement was, the name it rebound ("" if none) and its result.
Ret(stmt, target, res) == [stmt |-> stmt, target |-> target, st |-> res.st, val |-> res.val]

OtherThanHeap == <<call, out, lines, orbit, is_running, glut_log, last, ghost>>

\* The caller holds u, possibly v = u (one object, two names), w = u, and the
\* matrices A and possibly B = A.
InitHeap ==
    /\ \E u0 \in {<<4, 7, 5>>}, aliasV \in BOOLEAN, aliasB \in BOOLEAN :
          LET vecs == IF aliasV THEN <<VecObj(u0)>> ELSE <<VecObj(u0), VecObj(<<1, 0, 0>>)>>
              mats == IF aliasB THEN <<MatObj(TestA)>> ELSE <<MatObj(TestA), MatObj(TestB)>>
          IN  /\ heap = vecs \o mats
              /\ env = [name \in {"u", "v", "w", "A", "B"} |->
                           CASE name \in {"u", "w"} -> 1
                             [] name = "v" -> Len(vecs)
                             [] name = "A" -> Len(vecs) + 1
                             [] name = "B" -> Len(vecs) + Len(mats)]
    /\ ret = Ret("none", "", Pending)
    /\ call = NoCall /\ out = NoOut
    /\ lines = <<>> /\ orbit = NoOrbit
    /\ is_running = FALSE /\ glut_log = <<>> /\ last = NoLast /\ ghost = NoGhost

\* The heap stays within the bounds of the model.
Bounded(h) ==
    /\ Len(h) <= MaxObjects
    /\ \A id \in 1..Len(h) :
           h[id].cls = "Vector" => \A i \in 1..3 : Abs(h[id].val[i]) <= MaxMagnitude

\* An expression statement: the method runs, its result is kept in ret.
Eval(stmt, r) ==
    /\ Bounded(r.heap)
    /\ heap' = r.heap
    /\ ret' = Ret(stmt, "", r.ret)
    /\ UNCHANGED <<env, OtherThanHeap>>

\* An augmented assignment x += y: x is rebound to what the method returns.
Augmented(stmt, x, r) ==
    /\ Bounded(r.heap)
    /\ heap' = r.heap
    /\ ret' = Ret(stmt, x, r.ret)
    /\ env' = [env EXCEPT ![x] = r.ret.val]
    /\ UNCHANGED OtherThanHeap

HDot == \E x \in VecNames, y \in VecNames : Eval("dot", m_dot(heap, env[x], env[y]))
HCross == \E x \in VecNames, y \in VecNames : Eval("cross", m_cross(heap, env[x], env[y]))
HNorm == \E x \in VecNames : Eval("norm", m_norm(heap, env[x]))
HAngle == \E x \in VecNames, y \in VecNames : Eval("angle", m_angle(heap, env[x], env[y]))
HOrientedAngle ==
    \E x \in VecNames, y \in VecNames, n \in {0, env["w"]} :
        Eval("oriented_angle", m_oriented_angle(heap, env[x], env[y], n))
HMul == \E x \in VecNames, s \in Scalars : Eval("mul", m_mul(heap, env[x], s))
HAdd == \E x \in VecNames, y \in VecNames : Eval("add", m_add(heap, env[x], env[y]))
HSub == \E x \in VecNames, y \in VecNames : Eval("sub", m_sub(heap, env[x], env[y]))
HNeg == \E x \in VecNames : Eval("neg", m_neg(heap, env[x]))
HIAdd == \E x \in VecNames, y \in VecNames : Augmented("iadd", x, m_iadd(heap, env[x], env[y]))
HISub == \E x \in VecNames, y \in VecNames : Augmented("isub", x, m_isub(heap, env[x], env[y]))
HMatVec == \E a \in MatNames, x \in VecNames : Eval("matvec", m_matvec(heap, env[a], env[x]))
HMatMul == \E a \in MatNames, b \in MatNames : Eval("matmul", m_matmul(heap, env[a], env[b]))

NextHeap ==
    \/ HDot \/ HCross \/ HNorm \/ HAngle \/ HOrientedAngle
    \/ HMul \/ HAdd \/ HSub \/ HNeg \/ HIAdd \/ HISub
    \/ HMatVec \/ HMatMul

SpecHeap == InitHeap /\ [][NextHeap]_vars

\* C1: no Vector or Matrix operation mutates an operand: every object alive
\* before a statement (the operands and whatever aliases them) holds the same
\* components after it, and u += v and u -= v bind u to a new Vector, leaving
\* the object u was bound to as it was.
C1_NoOperandMutated ==
    [][ /\ Len(heap') >= Len(heap)
        /\ \A id \in 1..Len(heap) : heap'[id] = heap[id]
        /\ ret'.stmt \in {"iadd", "isub"} =>
              /\ ret'.st = "ok"
              /\ env'[ret'.target] = Len(heap) + 1
              /\ heap'[env'[ret'.target]].cls = "Vector"
              /\ heap'[env[ret'.target]] = heap[env[ret'.target]]
              /\ \A name \in DOMAIN env \ {ret'.target} : env'[name] = env[name]
      ]_vars

C1_Witness ==
    /\ ret.stmt = "iadd" /\ ret.target = "u" /\ ret.st = "ok"
    /\ env["w"] = 1 /\ env["u"] # 1
    /\ heap[1].val = <<4, 7, 5>>
    /\ heap[env["u"]].val # <<4, 7, 5>>

(***************************************************************************)
(* interact.py: ask_orbit.  A line the user types is <<>> (an empty line)  *)
(* or <<x>>, x the value eval() gives it.  A Python value is None (<<>>)   *)
(* or <<x>>.  lines is what the user will type, one line per prompt;       *)
(* ask_orbit reads them in order.                                          *)
(***************************************************************************)
\* The user answers the method prompt with a number in 0..MaxChoice, or an empty line.
MaxChoice == 7

\* ask(prompt, default): the value of the line, or default for an empty line.
ask(line, default) == IF line = <<>> THEN default ELSE line

Unbound == "<unbound>"

\* ask_orbit, lines 47-66: the constructor and the shape arguments for a choice,
\* asked from line i on.  No branch binds constructor for a choice outside 1..5.
shape(choice, ls, i) ==
    CASE choice = <<1>> ->
             [constructor |-> "Orbit", asked |-> 2,
              args |-> ("periapsis" :> ask(ls[i], None)) @@ ("eccentricity" :> ask(ls[i + 1], <<0>>))]
      [] choice = <<2>> ->
             [constructor |-> "from_semi_major_axis", asked |-> 2,
              args |-> ("semi_major_axis" :> ask(ls[i], None)) @@ ("eccentricity" :> ask(ls[i + 1], <<0>>))]
      [] choice = <<3>> ->
             [constructor |-> "from_apses", asked |-> 2,
              args |-> ("apsis1" :> ask(ls[i], <<0>>)) @@ ("apsis2" :> ask(ls[i + 1], <<0>>))]
      [] choice = <<4>> ->
             [constructor |-> "from_period", asked |-> 2,
              args |-> ("period" :> ask(ls[i], None)) @@ ("eccentricity" :> ask(ls[i + 1], <<0>>))]
      [] choice = <<5>> ->
             [constructor |-> "from_period", asked |-> 2,
              args |-> ("period" :> ask(ls[i], None)) @@ ("apsis" :> ask(ls[i + 1], <<0>>))]
      [] OTHER ->
             [constructor |-> Unbound, asked |-> 0, args |-> <<>>]

\* ask_orbit: the primary, the method, the shape, the plane and the position are
\* asked, then constructor(**args) is evaluated: the call is made, or the
\* unbound local raises UnboundLocalError.
ask_orbit(ls) ==
    LET primary == ask(ls[1], <<"Kerbin">>)
        choice == ask(ls[2], <<1>>)
        sh == shape(choice, ls, 3)
        j == 3 + sh.asked
        args == ("primary" :> primary) @@ sh.args
                    @@ ("inclination" :> ask(ls[j], <<0>>))
                    @@ ("longitude_of_ascending_node" :> ask(ls[j + 1], <<0>>))
                    @@ ("argument_of_periapsis" :> ask(ls[j + 2], <<0>>))
                    @@ ("epoch" :> ask(ls[j + 3], <<0>>))
                    @@ ("mean_anomaly_at_epoch" :> ask(ls[j + 4], <<0>>))
    IN  [pc |-> "done", choice |-> choice[1], constructor |-> sh.constructor, args |-> args,
         st |-> IF sh.constructor = Unbound THEN "UnboundLocalError" ELSE "called",
         read |-> j + 4]

Answers == {<<>>, <<1>>}
Started == [pc |-> "start", choice |-> 0, constructor |-> Unbound, args |-> <<>>,
            st |-> "pending", read |-> 0]

OtherThanAsk == <<call, out, heap, env, ret, is_running, glut_log, last, ghost>>

InitAsk ==
    /\ \E primary \in {<<>>, <<"Mun">>},
          choice \in {<<>>} \cup {<<k>> : k \in 0..MaxChoice},
          rest \in [1..7 -> Answers] :
              lines = <<primary, choice>> \o rest
    /\ orbit = Started
    /\ call = NoCall /\ out = NoOut
    /\ heap = NoHeap /\ env = NoEnv /\ ret = Pending
    /\ is_running = FALSE /\ glut_log = <<>> /\ last = NoLast /\ ghost = NoGhost

\* Orbit.ask() is called and runs to its return statement.
AskOrbit ==
    /\ orbit.pc = "start"
    /\ orbit' = ask_orbit(lines)
    /\ UNCHANGED <<lines, OtherThanAsk>>

NextAsk == AskOrbit

SpecAsk == InitAsk /\ [][NextAsk]_vars

\* The arguments every method takes, and per method of the menu its constructor
\* and its shape parameters.
CommonKeys == {"primary", "inclination", "longitude_of_ascending_node",
               "argument_of_periapsis", "epoch", "mean_anomaly_at_epoch"}
MenuConstructor ==
    <<"Orbit", "from_semi_major_axis", "from_apses", "from_period", "from_period_apsis",
      "from_state">>
MenuShape ==
    << {"periapsis", "eccentricity"}, {"semi_major_axis", "eccentricity"},
       {"apsis1", "apsis2"}, {"period", "eccentricity"}, {"period", "apsis"},
       {"position", "velocity"} >>

\* C8 as claimed: for every method of the menu (choices 1 to 6) ask_orbit
\* reaches constructor(**args) with the constructor of that method and with
\* exactly that method's shape parameters in args.
C8_MenuReachesConstructor ==
    (orbit.pc = "done" /\ orbit.choice \in 1..6) =>
        /\ orbit.st = "called"
        /\ orbit.constructor = MenuConstructor[orbit.choice]
        /\ (DOMAIN orbit.args) \ CommonKeys = MenuShape[orbit.choice]

(***************************************************************************)
(* gui/graphics.py: glut_callback.  A wrapped method f is given by what    *)
(* its body does: it may assign self.is_running, then it returns a value   *)
(* or raises.  An exception is an instance of Exception (the except clause *)
(* of the wrapper matches it) or of BaseException only (KeyboardInterrupt, *)
(* SystemExit: the clause does not).  Python 3: every exception has        *)
(* with_traceback, which returns the exception itself.  glutLeaveMainLoop  *)
(* returns.                                                                *)
(***************************************************************************)
\* The wrapped callbacks are invoked at most this many times.
MaxInvocations == 4

Exceptions == {"ValueError", "ZeroDivisionError"}
BaseOnly == {"KeyboardInterrupt", "SystemExit"}
ReturnValues == {"None", "handled"}
\* What the body of a wrapped method does: body.assign is "keep" or the Boolean
\* it assigns to self.is_running; body.kind is "return" or "raise"; body.what is
\* the value returned or the exception raised.
Bodies ==
    [assign : {"keep", "True", "False"}, kind : {"return"}, what : ReturnValues]
        \cup [assign : {"keep", "True", "False"}, kind : {"raise"}, what : Exceptions \cup BaseOnly]

\* self.is_running when the body of f is over.
AfterBody(running, body) ==
    CASE body.assign = "True" -> TRUE
      [] body.assign = "False" -> FALSE
      [] OTHER -> running

wrapper_no_stop(running, body) ==
    [is_running |-> AfterBody(running, body), did |-> <<>>,
     returned |-> IF body.kind = "return" THEN body.what ELSE "",
     raised |-> IF body.kind = "raise" THEN body.what ELSE ""]
\* glut_callback's wrapper: f's value is returned; an Exception stops the main
\* loop (self.is_running = False, then glutLeaveMainLoop()) and is raised again;
\* any other exception passes through.  did lists what the wrapper itself did.
wrapper(running, body) ==
    IF body.kind = "return"
    THEN [is_running |-> AfterBody(running, body), did |-> <<>>,
          returned |-> body.what, raised |-> ""]
    ELSE IF body.what \in Exceptions
    THEN [is_running |-> FALSE, did |-> <<"is_running = False", "glutLeaveMainLoop()">>,
          returned |-> "", raised |-> body.what]
    ELSE [is_running |-> AfterBody(running, body), did |-> <<>>,
          returned |-> "", raised |-> body.what]

OtherThanGlut == <<call, out, heap, env, ret, lines, orbit>>

InitGlut ==
    /\ is_running = TRUE
    /\ glut_log = <<>>
    /\ last = [kind |-> "none", what |-> "", before |-> TRUE, did |-> <<>>,
               returned |-> "", raised |-> ""]
    /\ ghost = [n |-> 0, raised |-> FALSE, stopped |-> FALSE]
    /\ call = NoCall /\ out = NoOut
    /\ heap = NoHeap /\ env = NoEnv /\ ret = Pending
    /\ lines = <<>> /\ orbit = NoOrbit

\* GLUT invokes a wrapped callback.
Invoke ==
    /\ ghost.n < MaxInvocations
    /\ \E body \in Bodies :
          LET w == wrapper(is_running, body)
          IN  /\ is_running' = w.is_running
              /\ glut_log' = glut_log \o w.did
              /\ last' = [kind |-> body.kind, what |-> body.what,
                          before |-> AfterBody(is_running, body), did |-> w.did,
                          returned |-> w.returned, raised |-> w.raised]
              /\ ghost' = [n |-> ghost.n + 1,
                           raised |-> ghost.raised \/ body.kind = "raise",
                           stopped |-> IF body.kind = "raise" /\ body.what \in Exceptions
                                       THEN TRUE
                                       ELSE ghost.stopped /\ body.assign # "True"]
    /\ UNCHANGED OtherThanGlut

NextGlut == Invoke

SpecGlut == InitGlut /\ [][NextGlut]_vars

\* C9 as claimed: if the wrapped method raises, self.is_running is set to False
\* and glutLeaveMainLoop() is called, in that order, before the same exception
\* propagates; if it returns, the wrapper returns its value, leaves is_running
\* unchanged and does not call glutLeaveMainLoop(); so is_running is False once
\* any invocation has raised.
C9_EveryRaiseStopsTheLoop ==
    /\ last.kind = "raise" =>
          /\ last.did = <<"is_running = False", "glutLeaveMainLoop()">>
          /\ ~is_running
          /\ last.raised = last.what
    /\ last.kind = "return" =>
          /\ last.returned = last.what /\ last.raised = ""
          /\ is_running = last.before
          /\ last.did = <<>>
    /\ ghost.raised => ~is_running

\* C9, amended: if the wrapped method raises an instance of Exception,
\* self.is_running is set to False and glutLeaveMainLoop() is called, in that
\* order, before the same exception propagates; any other exception
\* (KeyboardInterrupt, SystemExit) propagates with neither; if the method
\* returns, the wrapper returns its value, leaves is_running unchanged and does
\* not call glutLeaveMainLoop(); so is_running is False once an invocation has
\* raised an instance of Exception, until a wrapped method itself assigns it True.
C9_ExceptionStopsTheLoop ==
    /\ (last.kind = "raise" /\ last.what \in Exceptions) =>
          /\ last.did = <<"is_running = False", "glutLeaveMainLoop()">>
          /\ ~is_running
          /\ last.raised = last.what /\ last.returned = ""
    /\ (last.kind = "raise" /\ last.what \in BaseOnly) =>
          /\ last.did = <<>>
          /\ is_running = last.before
          /\ last.raised = last.what /\ last.returned = ""
    /\ last.kind = "return" =>
          /\ last.returned = last.what /\ last.raised = ""
          /\ is_running = last.before
          /\ last.did = <<>>
    /\ ghost.stopped => ~is_running

C9_Witness ==
    /\ last.kind = "raise" /\ last.what = "ValueError"
    /\ last.before
    /\ ~is_running
    /\ ghost.n = 2
    /\ Len(glut_log) = 2

====
